---- MODULE Spec2Model ----
(***************************************************************************)
(* Model of moonraker/components/spool_manager.py: the Spool entity, the   *)
(* spool registry (SpoolManager), the extrusion accumulator and the        *)
(* request handlers (SpoolManagerHandler).                                 *)
(*                                                                         *)
(* Coroutines are cut at their awaits: one action is the code between two  *)
(* awaits.  A database operation takes effect when it is issued (the       *)
(* namespace executes operations in issue order); its result is used by    *)
(* the continuation, which runs in a later step.  Telemetry callbacks and  *)
(* other requests may run between the two, and the continuations of two    *)
(* requests may resume in either order.                                    *)
(*                                                                         *)
(* Lengths and positions are integers (units of filament), timestamps and  *)
(* cost are left out, a Spool carries the attributes name, material,       *)
(* density and used_length (diameter and total_weight are always given).   *)
(***************************************************************************)
EXTENDS Integers, Sequences, FiniteSets, TLC

\* ---------------------------------------------------------------- bounds
NumTasks == 2
MaxIdNum == 0
MaxPos == 2
MaxRetract == 1
MaxLen == 2
MaxSamples == 3
CapWindow == 3

\* ------------------------------------------------------ program constants
MAX_SPOOLS == 1000
IdWidth == 6
HexBase == 16

Tasks == 1..NumTasks
Positions == 0..MaxPos
AccPositions == (0 - MaxRetract)..MaxPos

\* Python's None, for string-valued attributes; a key missing from a mapping
None == "None"
Absent == "Absent"

\* ------------------------------------------------------------- spool ids
HexDigits == <<"0", "1", "2", "3", "4", "5", "6", "7",
               "8", "9", "A", "B", "C", "D", "E", "F">>

DigitVal(c) == (CHOOSE i \in 1..HexBase : HexDigits[i] = c) - 1

RECURSIVE HexStr(_)
HexStr(n) ==
    IF n < HexBase THEN <<HexDigits[n + 1]>>
    ELSE HexStr(n \div HexBase) \o <<HexDigits[(n % HexBase) + 1]>>

\* f"{n:06X}": uppercase hex, zero-padded to at least IdWidth digits
Format06X(n) ==
    LET s == HexStr(n)
    IN  IF Len(s) >= IdWidth THEN s
        ELSE [i \in 1..(IdWidth - Len(s)) |-> "0"] \o s

\* int(s, 16)
RECURSIVE ParseHex(_)
ParseHex(s) ==
    IF Len(s) = 0 THEN 0
    ELSE ParseHex(SubSeq(s, 1, Len(s) - 1)) * HexBase + DigitVal(s[Len(s)])

\* the ids the bounded model can assign, and "no id" (None)
KeyUniverse == {Format06X(n) : n \in 0..MaxIdNum}
NoId == <<>>

\* byte-wise string order of two keys
RECURSIVE LexLess(_, _)
LexLess(a, b) ==
    IF Len(a) = 0 THEN Len(b) > 0
    ELSE IF Len(b) = 0 THEN FALSE
    ELSE IF a[1] # b[1] THEN DigitVal(a[1]) < DigitVal(b[1])
    ELSE LexLess(Tail(a), Tail(b))

\* ---------------------------------------------------------- Spool entity
NoSpool == [none |-> TRUE]
IsSpool(s) == "none" \notin DOMAIN s

RequiredAttrs == {"name", "material"}
MethodAttrs == {"validate", "update", "used_weight", "serialize"}

\* Spool.__init__ before self.update(data): the instance attributes
SpoolDefaults ==
    [name |-> None, material |-> None, density |-> None, used_length |-> 0]

HasAttr(spool, a) == a \in DOMAIN spool \/ a \in MethodAttrs

\* Spool.update: setattr for every key of data the object has an attribute for
SpoolUpdate(spool, data) ==
    LET keys == DOMAIN spool \cup {a \in DOMAIN data : HasAttr(spool, a)}
    IN  [a \in keys |-> IF a \in DOMAIN data THEN data[a] ELSE spool[a]]

SpoolNew(data) == SpoolUpdate(SpoolDefaults, data)

Validate(spool) == {f \in RequiredAttrs : spool[f] = None}

\* spool.used_weight is callable only while no instance attribute shadows it
WeightCallable(spool) == "used_weight" \notin DOMAIN spool

UnitWeight == 3
UsedWeight(spool) ==
    IF spool.density # None THEN UnitWeight * spool.used_length ELSE 0

Serialize(spool) == spool

SerializeCalculated(spool) ==
    [a \in DOMAIN spool \cup {"used_weight"} |->
        IF a = "used_weight" THEN UsedWeight(spool) ELSE spool[a]]

\* ------------------------------------------------------ request mappings
MkData(n, m, d, ul, uw, ac) ==
    LET keys == (IF n # Absent THEN {"name"} ELSE {})
                \cup (IF m # Absent THEN {"material"} ELSE {})
                \cup (IF d # Absent THEN {"density"} ELSE {})
                \cup (IF ul THEN {"used_length"} ELSE {})
                \cup (IF uw THEN {"used_weight"} ELSE {})
                \cup (IF ac # Absent THEN {"active"} ELSE {})
    IN  [k \in keys |->
            CASE k = "name" -> n
              [] k = "material" -> m
              [] k = "density" -> d
              [] k = "used_length" -> 0
              [] k = "used_weight" -> 0
              [] k = "active" -> (ac = "True")]

\* the field mappings callers send: complete and incomplete records, each
\* alone or with one more key (used_length, used_weight or active)
DataShapes ==
    {<<"A", "PLA", "1.24">>, <<"B", "PLA", "1.24">>, <<"A", "PLA", Absent>>,
     <<"A", Absent, Absent>>, <<None, Absent, Absent>>,
     <<Absent, Absent, Absent>>}

DataExtras ==
    {<<FALSE, FALSE, Absent>>, <<TRUE, FALSE, Absent>>,
     <<FALSE, TRUE, Absent>>, <<FALSE, FALSE, "True">>,
     <<FALSE, FALSE, "False">>}

DataSet ==
    {MkData(s[1], s[2], s[3], x[1], x[2], x[3]) :
        s \in DataShapes, x \in DataExtras}

DataGet(data, k) == IF k \in DOMAIN data THEN data[k] ELSE None

\* ------------------------------------------------------------------ state
VARIABLES
    db,             \* spool namespace: spool id -> serialized Spool record
    active,         \* moonraker namespace, ACTIVE_SPOOL_KEY: a spool id or NoId
    highest_e_pos,  \* SpoolManagerHandler.highest_e_pos
    extruded,       \* SpoolManagerHandler.extruded
    subscribed,     \* _handle_status_update is registered for status updates
    readyPc,        \* position of _handle_server_ready: "idle" or "sub"
    pc,             \* position of each request handler
    loc,            \* local variables of each request handler
    events,         \* notifications sent by the last step
    reply,          \* response (or error) returned to a caller by the last step
    issued,         \* ids add_spool has returned so far
    exited,         \* on_exit has been called
    snap,           \* per request: used_length + extruded of the active spool
                    \* when the request began (recorded by BeginObserved)
    p0,             \* accumulator runs: the initial position
    samples,        \* accumulator runs: the samples processed so far
    ready           \* how _handle_server_ready last ended: "never", "ok" or
                    \* "failed" (recorded by ReadyDoneObserved)

vars == <<db, active, highest_e_pos, extruded, subscribed, readyPc, pc, loc,
          events, reply, issued, exited, snap, p0, samples, ready>>

regVars == <<db, active, issued>>
accVars == <<highest_e_pos, extruded>>
runVars == <<subscribed, readyPc, exited, snap, p0, samples, ready>>

\* ------------------------------------------------- namespace operations
DbGet(store, key) == IF key \in DOMAIN store THEN store[key] ELSE NoSpool

DbPut(store, key, val) ==
    [k \in DOMAIN store \cup {key} |-> IF k = key THEN val ELSE store[k]]

DbDelete(store, key) == [k \in DOMAIN store \ {key} |-> store[k]]

\* the greatest key of a non-empty set in byte order, found digit by digit
RECURSIVE LexMax(_)
LexMax(S) ==
    LET rest == {k \in S : Len(k) > 0}
        firsts == {k[1] : k \in rest}
        top == CHOOSE c \in firsts :
                  \A d \in firsts : DigitVal(d) <= DigitVal(c)
    IN  IF rest = {} THEN <<>>
        ELSE <<top>> \o LexMax({Tail(k) : k \in {r \in rest : r[1] = top}})

\* keys()[-1]: keys are listed in byte order
DbLastKey(store) ==
    IF DOMAIN store = {} THEN NoId ELSE LexMax(DOMAIN store)

\* find_spool: Spool(record), or None
FindSpool(store, key) ==
    LET rec == DbGet(store, key)
    IN  IF IsSpool(rec) THEN SpoolNew(rec) ELSE NoSpool

\* ------------------------------------------------------------- responses
NoReply == [kind |-> "none", op |-> "none", arg |-> NoId, value |-> NoId]
ErrorReply(op, arg, e) ==
    [kind |-> "error", op |-> op, arg |-> arg, value |-> e]
OkReply(op, arg, v) ==
    [kind |-> "ok", op |-> op, arg |-> arg, value |-> v]

FilamentUsed(sid, w) ==
    [type |-> "filament_used", spool_id |-> sid, used_weight |-> w]
SpoolDeleted(sid) ==
    [type |-> "spool_deleted", spool_id |-> sid, used_weight |-> 0]
ActiveSpoolSet(sid) ==
    [type |-> "active_spool_set", spool_id |-> sid, used_weight |-> 0]

LocInit ==
    [sid |-> NoId, spool |-> NoSpool, used |-> 0,
     rid |-> NoId, cur |-> NoSpool, new |-> NoSpool, last |-> NoId, len |-> 0]

Quiet == events' = <<>> /\ reply' = NoReply

\* --------------------------------------------------------------- Init
Init ==
    /\ db = [k \in {} |-> NoSpool]
    /\ active = NoId
    /\ highest_e_pos = 0
    /\ extruded = 0
    /\ subscribed = FALSE
    /\ readyPc = "idle"
    /\ pc = [t \in Tasks |-> "idle"]
    /\ loc = [t \in Tasks |-> LocInit]
    /\ events = <<>>
    /\ reply = NoReply
    /\ issued = {}
    /\ exited = FALSE
    /\ snap = [t \in Tasks |-> 0]
    /\ p0 = 0
    /\ samples = <<>>
    /\ ready = "never"

\* ------------------------------------------------------- accumulator
\* _handle_status_update(status) with status.toolhead.position[3] = epos
HandleStatusUpdate(epos) ==
    IF epos # 0 /\ epos > highest_e_pos
    THEN /\ extruded' = extruded + (epos - highest_e_pos)
         /\ highest_e_pos' = epos
    ELSE UNCHANGED accVars

Sample(epos) ==
    /\ ~exited /\ subscribed
    /\ epos > highest_e_pos => extruded + (epos - highest_e_pos) <= MaxLen
    /\ HandleStatusUpdate(epos)
    /\ Quiet
    /\ UNCHANGED <<regVars, runVars, pc, loc>>

\* _handle_server_ready up to the await of subscribe_objects
ReadyStart ==
    /\ ~exited /\ readyPc = "idle"
    /\ readyPc' = "sub"
    /\ subscribed' = TRUE
    /\ Quiet
    /\ UNCHANGED <<regVars, accVars, pc, loc, exited, snap, p0, samples, ready>>

\* _handle_server_ready after the await; hasPos: the result carries a position
ReadyResult(hasPos, initial_e_pos) ==
    /\ ~exited /\ readyPc = "sub"
    /\ readyPc' = "idle"
    /\ IF hasPos
       THEN /\ highest_e_pos' = initial_e_pos
            /\ reply' = NoReply
       ELSE /\ highest_e_pos' = highest_e_pos
            /\ reply' = ErrorReply("ready", NoId, "Unable to subscribe to e position")
    /\ events' = <<>>
    /\ UNCHANGED <<regVars, extruded, subscribed, pc, loc, exited, snap, p0, samples>>

ReadyDone(hasPos, initial_e_pos) ==
    ReadyResult(hasPos, initial_e_pos) /\ ready' = ready

\* the same step, recording how the handler ended
ReadyDoneObserved(hasPos, initial_e_pos) ==
    /\ ReadyResult(hasPos, initial_e_pos)
    /\ ready' = IF hasPos THEN "ok" ELSE "failed"

\* ------------------------------------------- track_filament_usage
\* a request arrives: the handler calls track_filament_usage, which issues
\* get_active_spool_id
BeginRequest(t) ==
    /\ ~exited /\ pc[t] = "idle"
    /\ pc' = [pc EXCEPT ![t] = "t_id"]
    /\ loc' = [loc EXCEPT ![t] = [LocInit EXCEPT !.sid = active]]
    /\ Quiet
    /\ UNCHANGED <<regVars, accVars, subscribed, readyPc, exited, p0, samples,
                    ready>>

Begin(t) == BeginRequest(t) /\ snap' = snap

\* the same step, recording what the active spool's record and the
\* accumulator hold together when the request begins
BeginObserved(t) ==
    /\ BeginRequest(t)
    /\ snap' = [snap EXCEPT ![t] =
                    IF active \in DOMAIN db
                    THEN db[active].used_length + extruded ELSE 0]

\* line 190: find_spool(spool_id) is issued
TrackGotId(t) ==
    /\ ~exited /\ pc[t] = "t_id"
    /\ pc' = [pc EXCEPT ![t] = "t_spool"]
    /\ loc' = [loc EXCEPT ![t].spool = FindSpool(db, loc[t].sid)]
    /\ Quiet
    /\ UNCHANGED <<regVars, accVars, runVars>>

\* TrackApply with the drained length replacing used_length instead of
\* being added to it
TrackApplyReplace(t) ==
    LET spool == loc[t].spool
        used_length == extruded
    IN  /\ WeightCallable(spool)
        /\ pc' = [pc EXCEPT ![t] = "t_upd"]
        /\ loc' = [loc EXCEPT
               ![t].used = used_length,
               ![t].spool = [spool EXCEPT !.used_length = used_length],
               ![t].cur = FindSpool(db, loc[t].sid)]
        /\ reply' = NoReply

\* lines 192-217, up to the await inside update_spool (its find_spool)
TrackApply(t) ==
    LET spool == loc[t].spool
        used_length == extruded
        new_used_length == spool.used_length + used_length
    IN  IF WeightCallable(spool)
        THEN /\ new_used_length <= MaxLen
             /\ pc' = [pc EXCEPT ![t] = "t_upd"]
             /\ loc' = [loc EXCEPT
                    ![t].used = used_length,
                    ![t].spool = [spool EXCEPT !.used_length = new_used_length],
                    ![t].cur = FindSpool(db, loc[t].sid)]
             /\ reply' = NoReply
        ELSE \* spool.used_weight() raises TypeError: the request fails
             /\ pc' = [pc EXCEPT ![t] = "idle"]
             /\ loc' = [loc EXCEPT ![t] = LocInit]
             /\ reply' = ErrorReply("track", loc[t].sid, "TypeError")

\* TrackGotSpool without the test of line 192 (extruded > 0)
TrackGotSpoolUnguarded(t) ==
    /\ ~exited /\ pc[t] = "t_spool"
    /\ IF IsSpool(loc[t].spool)
       THEN TrackApply(t)
       ELSE /\ pc' = [pc EXCEPT ![t] = "act"]
            /\ loc' = loc
            /\ reply' = NoReply
    /\ events' = <<>>
    /\ UNCHANGED <<regVars, accVars, runVars>>

TrackGotSpool(t) ==
    /\ ~exited /\ pc[t] = "t_spool"
    /\ IF extruded > 0 /\ IsSpool(loc[t].spool)
       THEN TrackApply(t)
       ELSE /\ pc' = [pc EXCEPT ![t] = "act"]
            /\ loc' = loc
            /\ reply' = NoReply
    /\ events' = <<>>
    /\ UNCHANGED <<regVars, accVars, runVars>>

\* UpdateSpoolStore creating the record when find_spool returned None
UpdateSpoolStoreUpsert(store, spool_id, cur, data) ==
    LET base == IF IsSpool(cur) THEN cur ELSE SpoolDefaults
    IN  IF Validate(SpoolUpdate(base, data)) = {}
        THEN DbPut(store, spool_id, Serialize(SpoolUpdate(base, data)))
        ELSE store

\* update_spool(spool_id, data) after its find_spool returned cur:
\* the store it leaves, or the store unchanged when validation fails
UpdateSpoolStore(store, spool_id, cur, data) ==
    IF IsSpool(cur) /\ Validate(SpoolUpdate(cur, data)) = {}
    THEN DbPut(store, spool_id, Serialize(SpoolUpdate(cur, data)))
    ELSE store

UpdateSpoolFails(cur, data) ==
    IsSpool(cur) /\ Validate(SpoolUpdate(cur, data)) # {}

\* lines 217-225: update_spool completes, the event is sent, extruded is reset
TrackUpdDone(t) ==
    LET spool == loc[t].spool
        w == UsedWeight(spool)
                - UsedWeight([spool EXCEPT !.used_length = @ - loc[t].used])
    IN  /\ ~exited /\ pc[t] = "t_upd"
        /\ IF UpdateSpoolFails(loc[t].cur, Serialize(spool))
           THEN /\ pc' = [pc EXCEPT ![t] = "idle"]
                /\ loc' = [loc EXCEPT ![t] = LocInit]
                /\ reply' = ErrorReply("track", loc[t].sid,
                                        "Missing spool attributes")
                /\ events' = <<>>
                /\ UNCHANGED <<db, extruded>>
           ELSE /\ db' = UpdateSpoolStore(db, loc[t].sid, loc[t].cur,
                                          Serialize(spool))
                /\ events' = <<FilamentUsed(loc[t].sid, w)>>
                /\ extruded' = 0
                /\ pc' = [pc EXCEPT ![t] = "act"]
                /\ loc' = loc
                /\ reply' = NoReply
        /\ UNCHANGED <<active, issued, highest_e_pos, runVars>>

\* ------------------------------------------------- the request's own work
Finish(t) ==
    /\ pc' = [pc EXCEPT ![t] = "idle"]
    /\ loc' = [loc EXCEPT ![t] = LocInit]

\* _handle_spool_request, GET: find_spool and serialize(include_calculated)
GetSpoolReply(store, spool_id) ==
    LET spool == FindSpool(store, spool_id)
    IN  IF ~IsSpool(spool) THEN OkReply("get", spool_id, NoSpool)
        ELSE IF WeightCallable(spool)
             THEN OkReply("get", spool_id, SerializeCalculated(spool))
             ELSE ErrorReply("get", spool_id, "TypeError")

ActGet(t, spool_id) ==
    /\ ~exited /\ pc[t] = "act"
    /\ reply' = GetSpoolReply(db, spool_id)
    /\ events' = <<>>
    /\ Finish(t)
    /\ UNCHANGED <<regVars, accVars, runVars>>

\* _update_single_spool with an id: update_spool up to its await
ActUpdate(t, spool_id) ==
    /\ ~exited /\ pc[t] = "act"
    /\ pc' = [pc EXCEPT ![t] = "u_write"]
    /\ loc' = [loc EXCEPT ![t].rid = spool_id,
                          ![t].cur = FindSpool(db, spool_id)]
    /\ Quiet
    /\ UNCHANGED <<regVars, accVars, runVars>>

\* update_spool after the await: merge, validate, persist
UpdateWrite(t, data) ==
    /\ ~exited /\ pc[t] = "u_write"
    /\ db' = UpdateSpoolStore(db, loc[t].rid, loc[t].cur, data)
    /\ reply' = IF UpdateSpoolFails(loc[t].cur, data)
                THEN ErrorReply("update", loc[t].rid,
                                "Missing spool attributes")
                ELSE OkReply("update", loc[t].rid, loc[t].rid)
    /\ events' = <<>>
    /\ Finish(t)
    /\ UNCHANGED <<active, issued, accVars, runVars>>

\* the configured material table: _parse_materials_cfg only returns when no
\* template section is configured, and then returns {}
materials == [m \in {} |-> [density |-> None]]

\* the id add_spool derives from the last key of the store
NextSpoolId(last) == IF last = NoId THEN 0 ELSE ParseHex(last) + 1

\* _update_single_spool without an id: add_spool issues db.length();
\* maxId: the highest id number the run may assign
AddStart(t, maxId) ==
    /\ ~exited /\ pc[t] = "act"
    /\ NextSpoolId(DbLastKey(db)) <= maxId
    /\ pc' = [pc EXCEPT ![t] = "a_len"]
    /\ loc' = [loc EXCEPT ![t].len = Cardinality(DOMAIN db)]
    /\ Quiet
    /\ UNCHANGED <<regVars, accVars, runVars>>

ActAdd(t) == AddStart(t, MaxIdNum)

\* add_spool lines 135-146: why it raises, or "" when it goes on
AddFieldsError(data) ==
    IF DataGet(data, "density") = None
    THEN IF DataGet(data, "material") = None
         THEN "Density not provided"
         ELSE IF DataGet(data, "material") \notin DOMAIN materials
              THEN "AttributeError"
              ELSE IF materials[DataGet(data, "material")].density = None
                   THEN "Density not provided"
                   ELSE IF Validate(SpoolNew(data)) # {}
                        THEN "Missing spool attributes" ELSE ""
    ELSE IF Validate(SpoolNew(data)) # {}
         THEN "Missing spool attributes" ELSE ""

\* AddSpoolError refusing only above MAX_SPOOLS records
AddSpoolErrorAbove(len, data) ==
    IF len > MAX_SPOOLS THEN "Reached maximum number of spools"
    ELSE AddFieldsError(data)

\* add_spool lines 132-146: why it raises, or "" when it goes on
AddSpoolError(len, data) ==
    IF len >= MAX_SPOOLS THEN "Reached maximum number of spools"
    ELSE AddFieldsError(data)

\* the Spool add_spool builds, with the density filled in from the material
AddSpoolRecord(data) ==
    LET density == IF DataGet(data, "density") = None
                   THEN materials[data.material].density
                   ELSE data.density
        filled == [k \in DOMAIN data \cup {"density"} |->
                      IF k = "density" THEN density ELSE data[k]]
    IN  Serialize(SpoolNew(filled))

\* add_spool after db.length(): checks, Spool(data), validate, db.keys() issued
AddCheck(t, data, maxId) ==
    /\ ~exited /\ pc[t] = "a_len"
    /\ IF AddSpoolError(loc[t].len, data) # ""
       THEN /\ reply' = ErrorReply("add", NoId,
                                   AddSpoolError(loc[t].len, data))
            /\ Finish(t)
       ELSE /\ NextSpoolId(DbLastKey(db)) <= maxId
            /\ reply' = NoReply
            /\ pc' = [pc EXCEPT ![t] = "a_keys"]
            /\ loc' = [loc EXCEPT ![t].new = AddSpoolRecord(data),
                                  ![t].last = DbLastKey(db)]
    /\ events' = <<>>
    /\ UNCHANGED <<regVars, accVars, runVars>>

AddChecked(t, data) == AddCheck(t, data, MaxIdNum)

\* add_spool lines 148-157: the id is derived from the last key, the record
\* is written
AddWrite(t) ==
    LET spool_id == Format06X(NextSpoolId(loc[t].last))
    IN  /\ ~exited /\ pc[t] = "a_keys"
        /\ db' = DbPut(db, spool_id, loc[t].new)
        /\ issued' = issued \cup {spool_id}
        /\ reply' = OkReply("add", NoId, spool_id)
        /\ events' = <<>>
        /\ Finish(t)
        /\ UNCHANGED <<active, accVars, runVars>>

\* _delete_single_spool: delete_spool issues db.delete
ActDelete(t, spool_id) ==
    /\ ~exited /\ pc[t] = "act"
    /\ db' = DbDelete(db, spool_id)
    /\ pc' = [pc EXCEPT ![t] = "d_done"]
    /\ loc' = [loc EXCEPT ![t].rid = spool_id]
    /\ Quiet
    /\ UNCHANGED <<active, issued, accVars, runVars>>

\* delete_spool after the await: the spool_deleted event
DeleteDone(t) ==
    /\ ~exited /\ pc[t] = "d_done"
    /\ events' = <<SpoolDeleted(loc[t].rid)>>
    /\ reply' = OkReply("delete", loc[t].rid, "OK")
    /\ Finish(t)
    /\ UNCHANGED <<regVars, accVars, runVars>>

\* find_all_spools: the items are visited in key order; the first one whose
\* filter or serialization raises decides the error
ItemError(v, show_inactive) ==
    IF ~show_inactive /\ "active" \notin DOMAIN v THEN "KeyError"
    ELSE IF (show_inactive \/ v.active = TRUE) /\ ~WeightCallable(SpoolNew(v))
         THEN "TypeError" ELSE ""

FindAllSpools(store, show_inactive) ==
    LET bad == {k \in DOMAIN store : ItemError(store[k], show_inactive) # ""}
        first == CHOOSE k \in bad : \A j \in bad : j = k \/ LexLess(k, j)
        shown == {k \in DOMAIN store : show_inactive \/ store[k].active = TRUE}
    IN  IF bad # {}
        THEN ErrorReply("list", show_inactive,
                        ItemError(store[first], show_inactive))
        ELSE OkReply("list", show_inactive,
                     [k \in shown |-> SerializeCalculated(SpoolNew(store[k]))])

\* _handle_spools_list, GET
ActList(t, show_inactive) ==
    /\ ~exited /\ pc[t] = "act"
    /\ reply' = FindAllSpools(db, show_inactive)
    /\ events' = <<>>
    /\ Finish(t)
    /\ UNCHANGED <<regVars, accVars, runVars>>

\* _handle_active_spool, GET
ActActiveGet(t) ==
    /\ ~exited /\ pc[t] = "act"
    /\ reply' = OkReply("active_get", NoId, active)
    /\ events' = <<>>
    /\ Finish(t)
    /\ UNCHANGED <<regVars, accVars, runVars>>

\* _handle_active_spool, POST: set_active_spool issues find_spool
ActActivePost(t, spool_id) ==
    /\ ~exited /\ pc[t] = "act"
    /\ pc' = [pc EXCEPT ![t] = "s_write"]
    /\ loc' = [loc EXCEPT ![t].rid = spool_id,
                          ![t].cur = FindSpool(db, spool_id)]
    /\ Quiet
    /\ UNCHANGED <<regVars, accVars, runVars>>

\* SetActiveWrite without the test of line 119
SetActiveWriteAlways(t) ==
    /\ ~exited /\ pc[t] = "s_write"
    /\ active' = loc[t].rid
    /\ events' = <<ActiveSpoolSet(loc[t].rid)>>
    /\ reply' = OkReply("active_post", loc[t].rid, "OK")
    /\ Finish(t)
    /\ UNCHANGED <<db, issued, accVars, runVars>>

\* set_active_spool after the await
SetActiveWrite(t) ==
    /\ ~exited /\ pc[t] = "s_write"
    /\ IF IsSpool(loc[t].cur)
       THEN /\ active' = loc[t].rid
            /\ events' = <<ActiveSpoolSet(loc[t].rid)>>
            /\ reply' = OkReply("active_post", loc[t].rid, "OK")
       ELSE /\ active' = active
            /\ events' = <<>>
            /\ reply' = ErrorReply("active_post", loc[t].rid, "not found")
    /\ Finish(t)
    /\ UNCHANGED <<db, issued, accVars, runVars>>

\* on_exit: track_filament_usage() is called but the coroutine it returns is
\* neither awaited nor scheduled, so none of its body runs
OnExit ==
    /\ ~exited
    /\ exited' = TRUE
    /\ Quiet
    /\ UNCHANGED <<regVars, accVars, pc, loc, subscribed, readyPc, snap, p0,
                    samples, ready>>

\* -------------------------------------------------------- specification
Telemetry ==
    \/ \E epos \in Positions : Sample(epos)
    \/ ReadyStart
    \/ \E hasPos \in BOOLEAN, pos \in Positions : ReadyDone(hasPos, pos)

Tracking(T) ==
    \/ \E t \in T : Begin(t)
    \/ \E t \in T : TrackGotId(t)
    \/ \E t \in T : TrackGotSpool(t)
    \/ \E t \in T : TrackUpdDone(t)

Requests(T, D, I) ==
    \/ \E t \in T, id \in I : ActGet(t, id)
    \/ \E t \in T, id \in I : ActUpdate(t, id)
    \/ \E t \in T, data \in D : UpdateWrite(t, data)
    \/ \E t \in T : ActAdd(t)
    \/ \E t \in T, data \in D : AddChecked(t, data)
    \/ \E t \in T : AddWrite(t)
    \/ \E t \in T, id \in I : ActDelete(t, id)
    \/ \E t \in T : DeleteDone(t)
    \/ \E t \in T, show \in BOOLEAN : ActList(t, show)
    \/ \E t \in T : ActActiveGet(t)
    \/ \E t \in T, id \in I : ActActivePost(t, id)
    \/ \E t \in T : SetActiveWrite(t)

\* one request at a time, from construction
Next ==
    \/ Telemetry
    \/ Tracking({1})
    \/ Requests({1}, DataSet, KeyUniverse)
    \/ OnExit

Spec == Init /\ [][Next]_vars

\* ---- the accumulator alone: initialized at p0, then fed samples
InitAcc ==
    /\ p0 \in AccPositions
    /\ highest_e_pos = p0
    /\ extruded = 0
    /\ subscribed = TRUE
    /\ samples = <<>>
    /\ db = [k \in {} |-> NoSpool]
    /\ active = NoId
    /\ readyPc = "idle"
    /\ pc = [t \in Tasks |-> "idle"]
    /\ loc = [t \in Tasks |-> LocInit]
    /\ events = <<>>
    /\ reply = NoReply
    /\ issued = {}
    /\ exited = FALSE
    /\ snap = [t \in Tasks |-> 0]
    /\ ready = "ok"

AccSample(epos) ==
    /\ Len(samples) < MaxSamples
    /\ HandleStatusUpdate(epos)
    /\ samples' = Append(samples, epos)
    /\ Quiet
    /\ UNCHANGED <<regVars, pc, loc, subscribed, readyPc, exited, snap, p0,
                    ready>>

NextAcc == \E epos \in AccPositions : AccSample(epos)

SpecAcc == InitAcc /\ [][NextAcc]_vars

\* ---- overlapping requests against a store that holds one active spool
FirstSpool == AddSpoolRecord(MkData("A", "PLA", "1.24", FALSE, FALSE, Absent))

InitConc ==
    /\ db = DbPut([k \in {} |-> NoSpool], Format06X(0), FirstSpool)
    /\ active = Format06X(0)
    /\ issued = {Format06X(0)}
    /\ highest_e_pos = 0
    /\ extruded = 0
    /\ subscribed = TRUE
    /\ readyPc = "idle"
    /\ pc = [t \in Tasks |-> "idle"]
    /\ loc = [t \in Tasks |-> LocInit]
    /\ events = <<>>
    /\ reply = NoReply
    /\ exited = FALSE
    /\ snap = [t \in Tasks |-> 0]
    /\ p0 = 0
    /\ samples = <<>>
    /\ ready = "never"

\* edits of name, material and density
EditData == {d \in DataSet : DOMAIN d \subseteq {"name", "material", "density"}}

NextConc ==
    \/ \E epos \in Positions : Sample(epos)
    \/ \E t \in Tasks : BeginObserved(t)
    \/ \E t \in Tasks : TrackGotId(t)
    \/ \E t \in Tasks : TrackGotSpool(t)
    \/ \E t \in Tasks : TrackUpdDone(t)
    \/ \E t \in Tasks, id \in KeyUniverse : ActGet(t, id)
    \/ \E t \in Tasks, id \in KeyUniverse : ActUpdate(t, id)
    \/ \E t \in Tasks, data \in EditData : UpdateWrite(t, data)
    \/ \E t \in Tasks, id \in KeyUniverse : ActDelete(t, id)
    \/ \E t \in Tasks : DeleteDone(t)

SpecConc == InitConc /\ [][NextConc]_vars

\* ---- sequential add_spool calls on a store close to MAX_SPOOLS records:
\* the store that MAX_SPOOLS - CapWindow add_spool calls leave behind
CapData == {d \in DataSet : AddFieldsError(d) = ""}

InitCap ==
    /\ db = [k \in {Format06X(n) : n \in 0..(MAX_SPOOLS - CapWindow - 1)}
                |-> FirstSpool]
    /\ issued = {Format06X(n) : n \in 0..(MAX_SPOOLS - CapWindow - 1)}
    /\ active = NoId
    /\ highest_e_pos = 0
    /\ extruded = 0
    /\ subscribed = FALSE
    /\ readyPc = "idle"
    /\ pc = [t \in Tasks |-> "idle"]
    /\ loc = [t \in Tasks |-> LocInit]
    /\ events = <<>>
    /\ reply = NoReply
    /\ exited = FALSE
    /\ snap = [t \in Tasks |-> 0]
    /\ p0 = 0
    /\ samples = <<>>
    /\ ready = "never"

NextCap ==
    \/ Begin(1)
    \/ TrackGotId(1)
    \/ TrackGotSpool(1)
    \/ AddStart(1, MAX_SPOOLS)
    \/ \E data \in CapData : AddCheck(1, data, MAX_SPOOLS)
    \/ AddWrite(1)

SpecCap == InitCap /\ [][NextCap]_vars

\* ---- readiness: the klippy-ready handler, telemetry and requests that only
\* read the active spool id, with the outcome of the handler recorded
NextReady ==
    \/ ReadyStart
    \/ \E hasPos \in BOOLEAN, pos \in Positions : ReadyDoneObserved(hasPos, pos)
    \/ \E epos \in Positions : Sample(epos)
    \/ Begin(1)
    \/ TrackGotId(1)
    \/ TrackGotSpool(1)
    \/ ActActiveGet(1)

SpecReady == Init /\ [][NextReady]_vars

\* ---- registry requests, one at a time, on a store that holds one spool;
\* callers name the ids the registry can assign and one it never assigned
ReqIds == KeyUniverse \cup {Format06X(MaxIdNum + 1)}

InitReg ==
    /\ db = DbPut([k \in {} |-> NoSpool], Format06X(0), FirstSpool)
    /\ active = NoId
    /\ issued = {Format06X(0)}
    /\ highest_e_pos = 0
    /\ extruded = 0
    /\ subscribed = FALSE
    /\ readyPc = "idle"
    /\ pc = [t \in Tasks |-> "idle"]
    /\ loc = [t \in Tasks |-> LocInit]
    /\ events = <<>>
    /\ reply = NoReply
    /\ exited = FALSE
    /\ snap = [t \in Tasks |-> 0]
    /\ p0 = 0
    /\ samples = <<>>
    /\ ready = "never"

NextReg ==
    \/ Begin(1)
    \/ TrackGotId(1)
    \/ TrackGotSpool(1)
    \/ Requests({1}, EditData, ReqIds)

SpecReg == InitReg /\ [][NextReg]_vars

\* ---- overlapping add_spool calls, from the empty store
NextAdd ==
    \/ \E t \in Tasks : Begin(t)
    \/ \E t \in Tasks : TrackGotId(t)
    \/ \E t \in Tasks : TrackGotSpool(t)
    \/ \E t \in Tasks : ActAdd(t)
    \/ \E t \in Tasks, data \in CapData : AddChecked(t, data)
    \/ \E t \in Tasks : AddWrite(t)

SpecAdd == Init /\ [][NextAdd]_vars

\* ------------------------------------------------------------ properties
TrackCompletes(t) == pc[t] = "t_upd" /\ pc'[t] = "act"

HasFilamentUsed(evs) ==
    \E i \in 1..Len(evs) : evs[i].type = "filament_used"

\* C1: when an accounting transaction on an existing active spool completes,
\* the increase of the spool's persisted used_length plus the length still
\* pending in the accumulator equals the length accumulated from samples
\* since the previous transaction: nothing is lost, nothing counted twice.
C1_DrainIndivisible ==
    [][\A t \in Tasks :
        (TrackCompletes(t) /\ loc[t].sid \in DOMAIN db)
        => (db'[loc[t].sid].used_length - db[loc[t].sid].used_length)
               + extruded' = extruded]_vars

\* C2: the persisted used_length of a spool never decreases, except in the
\* step in which a caller's update_spool edit is written.
C2_UsedLengthNeverDecreases ==
    [][\A k \in DOMAIN db \cap DOMAIN db' :
        db'[k].used_length < db[k].used_length
        => \E t \in Tasks : pc[t] = "u_write" /\ pc'[t] = "idle"]_vars

RECURSIVE SeqMax(_, _)
SeqMax(hi, seq) ==
    IF seq = <<>> THEN hi
    ELSE SeqMax(IF Head(seq) > hi THEN Head(seq) ELSE hi, Tail(seq))

RECURSIVE SumNewMaxDeltas(_, _)
SumNewMaxDeltas(hi, seq) ==
    IF seq = <<>> THEN 0
    ELSE IF Head(seq) > hi
         THEN (Head(seq) - hi) + SumNewMaxDeltas(Head(seq), Tail(seq))
         ELSE SumNewMaxDeltas(hi, Tail(seq))

\* C3: after any sequence of samples from the initial position p0, extruded
\* is the sum of the positive deltas between consecutive new maxima,
\* highest_e_pos is the maximum of p0 and all samples, and
\* extruded = highest_e_pos - p0.
C3_AccumulatesNewMaxima ==
    /\ highest_e_pos = SeqMax(p0, samples)
    /\ extruded = SumNewMaxDeltas(p0, samples)
    /\ extruded = highest_e_pos - p0

C5_NoSpoolOrNothingPending ==
    [][\A t \in Tasks :
        /\ (pc[t] = "t_id" /\ pc'[t] # "t_id")
           => db' = db /\ ~HasFilamentUsed(events')
        /\ (pc[t] = "t_spool" /\ pc'[t] # "t_spool"
                /\ (~IsSpool(loc[t].spool) \/ extruded = 0))
           => /\ db' = db
              /\ ~HasFilamentUsed(events')
              /\ pc'[t] = "act"
        /\ (pc[t] = "t_upd" /\ pc'[t] # "t_upd"
                /\ (db' # db \/ HasFilamentUsed(events')))
           => IsSpool(loc[t].spool) /\ loc[t].used > 0]_vars

\* a transaction has ended without a spool while length is pending
C5_Witness ==
    \E t \in Tasks :
        /\ pc[t] = "act"
        /\ ~IsSpool(loc[t].spool)
        /\ loc[t].used = 0
        /\ extruded > 0
        /\ events = <<>>

\* C6: when on_exit is called with an existing active spool and extruded > 0,
\* the pending length is added to the spool's persisted used_length and
\* extruded is reset.
C6_ExitAppliesPending ==
    [][(~exited /\ exited' /\ active \in DOMAIN db /\ extruded > 0
            /\ WeightCallable(SpoolNew(db[active])))
        => /\ extruded' = 0
           /\ active \in DOMAIN db'
           /\ db'[active].used_length
                = db[active].used_length + extruded]_vars

\* C7: when a request has finished its accounting transaction and serves the
\* record of the spool that was active when it began, the used_length it
\* returns includes every sample processed before the request began: it is
\* at least what the record and the accumulator held together at that time.
C7_ReadIncludesEarlierSamples ==
    \A t \in Tasks :
        (pc[t] = "act" /\ loc[t].sid \in DOMAIN db
            /\ GetSpoolReply(db, loc[t].sid).kind = "ok")
        => GetSpoolReply(db, loc[t].sid).value.used_length >= snap[t]

IsHexId(id) ==
    /\ Len(id) = IdWidth
    /\ \A i \in 1..Len(id) : \E j \in 1..HexBase : HexDigits[j] = id[i]

\* C8: every id add_spool returns is a 6-digit uppercase hex string, is
\* numerically greater than every id returned before it, and is 000000 when
\* it is the first one.
C8_IdsStrictlyIncreasing ==
    [][(reply'.op = "add" /\ reply'.kind = "ok")
        => /\ IsHexId(reply'.value)
           /\ \A i \in issued : ParseHex(i) < ParseHex(reply'.value)
           /\ issued = {} => reply'.value = <<"0", "0", "0", "0", "0", "0">>]_vars

\* C9: no persisted spool record contains a used_weight field.
C9_UsedWeightNeverPersisted ==
    \A k \in DOMAIN db : "used_weight" \notin DOMAIN db[k]

\* C10: find_all_spools(show_inactive = False) does not fail, and returns a
\* mapping of exactly the records whose active field is true, a record that
\* was created without an active field counting as active.
C10_ListActiveSpools ==
    (reply.op = "list" /\ reply.arg = FALSE)
    => /\ reply.kind = "ok"
       /\ DOMAIN reply.value =
            {k \in DOMAIN db :
                "active" \notin DOMAIN db[k] \/ db[k].active = TRUE}

CapacityError == "Reached maximum number of spools"

\* C11: in sequential add_spool calls with valid fields and no deletes, a call
\* made while the store holds fewer than MAX_SPOOLS records is accepted
\* and then adds exactly one record, and a call made while the store holds
\* MAX_SPOOLS records or more fails with the capacity error and leaves the
\* store as it was.
C11_CapacityLimit ==
    [][\A t \in Tasks :
        /\ (pc[t] = "a_len" /\ pc'[t] # "a_len")
           => IF Cardinality(DOMAIN db) >= MAX_SPOOLS
              THEN /\ reply' = ErrorReply("add", NoId, CapacityError)
                   /\ pc'[t] = "idle"
                   /\ db' = db
              ELSE /\ pc'[t] = "a_keys"
                   /\ reply'.kind # "error"
                   /\ db' = db
        /\ (pc[t] = "a_keys" /\ pc'[t] # "a_keys")
           => /\ reply'.kind = "ok"
              /\ Cardinality(DOMAIN db) < MAX_SPOOLS
              /\ Cardinality(DOMAIN db') = Cardinality(DOMAIN db) + 1
              /\ \A k \in DOMAIN db : db'[k] = db[k]]_vars

\* the add_spool call made on a store of MAX_SPOOLS records has just failed
C11_Witness ==
    /\ reply = ErrorReply("add", NoId, CapacityError)
    /\ Cardinality(DOMAIN db) = MAX_SPOOLS
    /\ Format06X(MAX_SPOOLS - 1) \in issued

ValidationErrors == {"Density not provided", "Missing spool attributes"}

\* C12: add_spool called without a density fails with a validation error,
\* persists no record and returns no id when the material is absent, is not
\* a key of the material table or has no density there; when the material
\* resolves, the record it prepares carries the table's density.
C12_UnresolvedDensityRejected ==
    [][\A t \in Tasks, data \in DataSet :
        (AddChecked(t, data) /\ loc[t].len < MAX_SPOOLS
            /\ DataGet(data, "density") = None)
        => IF \/ DataGet(data, "material") = None
              \/ DataGet(data, "material") \notin DOMAIN materials
              \/ materials[DataGet(data, "material")].density = None
           THEN /\ reply'.kind = "error"
                /\ reply'.value \in ValidationErrors
                /\ pc'[t] = "idle"
                /\ db' = db
                /\ issued' = issued
           ELSE pc'[t] = "a_keys"
                => loc'[t].new.density
                      = materials[DataGet(data, "material")].density]_vars

\* C13: every time _handle_server_ready obtains an initial extruder position
\* p from the subscription, the accumulator is initialized: afterwards
\* highest_e_pos = p and extruded = 0.
C13_ReadyInitializesAccumulator ==
    [][\A p \in Positions :
        ReadyDone(TRUE, p) => highest_e_pos' = p /\ extruded' = 0]_vars

\* C14: when the subscription yields no initial extruder position the ready
\* handler ends with an error, and from then on, until a later run of the
\* handler obtains a position, no telemetry sample changes extruded or
\* highest_e_pos.
C14_NoBaselineNoAccumulation ==
    [][/\ \A p \in Positions :
            ReadyDoneObserved(FALSE, p) => reply'.kind = "error"
       /\ \A epos \in Positions :
            (Sample(epos) /\ ready = "failed")
            => highest_e_pos' = highest_e_pos /\ extruded' = extruded]_vars

\* C15: set_active_spool with an id that has no record fails (the handler
\* answers "not found"), leaves the active-spool pointer as it was and sends
\* no notification; with the id of an existing spool it sets the pointer to
\* that id, sends active_spool_set and succeeds.
C15_SetActiveSpool ==
    [][\A t \in Tasks :
        (pc[t] = "s_write" /\ pc'[t] # "s_write")
        => /\ db' = db
           /\ IF loc[t].rid \in DOMAIN db
              THEN /\ active' = loc[t].rid
                   /\ events' = <<ActiveSpoolSet(loc[t].rid)>>
                   /\ reply' = OkReply("active_post", loc[t].rid, "OK")
              ELSE /\ active' = active
                   /\ events' = <<>>
                   /\ reply'.kind = "error"]_vars

\* set_active_spool has just failed for an unknown id while another spool is
\* the active one
C15_Witness ==
    /\ reply.op = "active_post" /\ reply.kind = "error"
    /\ reply.arg \notin DOMAIN db
    /\ active \in DOMAIN db
    /\ active # reply.arg

\* C16: update_spool on an id that has no persisted record returns without
\* error, creates no record for that id and changes no other record.
C16_UpdateUnknownIsNoOp ==
    [][\A t \in Tasks :
        (pc[t] = "u_write" /\ pc'[t] # "u_write" /\ loc[t].rid \notin DOMAIN db)
        => /\ db' = db
           /\ reply' = OkReply("update", loc[t].rid, loc[t].rid)
           /\ events' = <<>>]_vars

\* update_spool has just returned for an id without a record, on a store that
\* holds another record
C16_Witness ==
    /\ reply.op = "update" /\ reply.kind = "ok"
    /\ reply.arg \notin DOMAIN db
    /\ DOMAIN db # {}

CallerFields == {"name", "material", "density"}

\* C17: an accounting transaction does not overwrite field changes a caller's
\* update_spool has persisted: when it completes, the name, material and
\* density of the spool's record are what they were just before its write.
C17_NoLostCallerUpdate ==
    [][\A t \in Tasks :
        (TrackCompletes(t) /\ loc[t].sid \in DOMAIN db)
        => /\ loc[t].sid \in DOMAIN db'
           /\ \A f \in CallerFields :
                db'[loc[t].sid][f] = db[loc[t].sid][f]]_vars

\* C18: an add_spool call returns an id that no other add_spool call has
\* returned and that has no record yet, and its write leaves the records
\* other add_spool calls created in place, also when the calls overlap.
C18_OverlappingAddsDistinct ==
    [][\A t \in Tasks :
        (pc[t] = "a_keys" /\ pc'[t] # "a_keys")
        => /\ reply'.kind = "ok"
           /\ reply'.value \notin issued
           /\ reply'.value \notin DOMAIN db
           /\ \A k \in DOMAIN db : k \in DOMAIN db' /\ db'[k] = db[k]]_vars

\* C19: the spool add_spool has just created is not the target of the
\* active-spool pointer: a spool becomes active only by set_active_spool
\* called with its id after its creation.
C19_NewSpoolNotActive ==
    [][(reply'.op = "add" /\ reply'.kind = "ok")
        => active' # reply'.value]_vars

\* C20: whenever filament_used is sent for spool S, S's record exists and its
\* persisted used_length was increased by the step that sends it.
C20_FilamentUsedMeansPersisted ==
    [][\A i \in 1..Len(events') :
        events'[i].type = "filament_used"
        => /\ events'[i].spool_id \in DOMAIN db
           /\ events'[i].spool_id \in DOMAIN db'
           /\ db'[events'[i].spool_id].used_length
                > db[events'[i].spool_id].used_length]_vars

TypeOK ==
    /\ DOMAIN db \subseteq KeyUniverse
    /\ \A k \in DOMAIN db : db[k].used_length \in 0..MaxLen
    /\ extruded >= 0
    /\ highest_e_pos \in AccPositions

====
